---- MODULE Spec2Model ----
(***************************************************************************)
(* Model of nanobot/heartbeat/service.py: the HeartbeatService lifecycle   *)
(* (start / stop / trigger_now), its background loop (_run_loop, _tick)    *)
(* running as an asyncio task, and the pure classifier _is_heartbeat_empty.*)
(*                                                                         *)
(* Strings are sequences of one-character strings.  An asyncio task is a   *)
(* record whose pc names the await it is suspended at; one action is one   *)
(* run of the task from an await to its next await (asyncio runs a task    *)
(* without pre-emption between awaits).  Task.cancel() only requests the   *)
(* cancellation; the CancelledError is raised inside the task at its       *)
(* current await the next time the event loop runs it.                     *)
(***************************************************************************)
EXTENDS Integers, Sequences, FiniteSets, TLC

(* ------------------------------ bounds -------------------------------- *)

\* calls of start() in one behaviour
MaxStarts == 2

\* calls of trigger_now() in flight at one time
MaxTriggers == 1

(* ------------------------- optional values ---------------------------- *)

None == [isNone |-> TRUE, val |-> <<>>]

Some(s) == [isNone |-> FALSE, val |-> s]

(* ------------------------ program constants --------------------------- *)

HEARTBEAT_OK_TOKEN == <<"H", "E", "A", "R", "T", "B", "E", "A", "T", "_", "O", "K">>

HEARTBEAT_PROMPT == "Read HEARTBEAT.md in your workspace and follow any instructions listed there. If nothing needs attention, reply with exactly: HEARTBEAT_OK"

skip_patterns == { <<"-", " ", "[", " ", "]">>, <<"*", " ", "[", " ", "]">>,
                   <<"-", " ", "[", "x", "]">>, <<"*", " ", "[", "x", "]">> }

(* --------------------------- str methods ------------------------------ *)

LowerLetters == <<"a", "b", "c", "d", "e", "f", "g", "h", "i", "j", "k", "l", "m",
                  "n", "o", "p", "q", "r", "s", "t", "u", "v", "w", "x", "y", "z">>

UpperLetters == <<"A", "B", "C", "D", "E", "F", "G", "H", "I", "J", "K", "L", "M",
                  "N", "O", "P", "Q", "R", "S", "T", "U", "V", "W", "X", "Y", "Z">>

\* characters str.strip() removes (the ones the model's alphabet has)
Whitespace == {" ", "\t", "\n", "\r", "\f"}

\* the upper-case letter of each lower-case letter
UpperMap ==
    [c \in {LowerLetters[i] : i \in 1..26} |->
        UpperLetters[CHOOSE i \in 1..26 : LowerLetters[i] = c]]

UpperChar(c) == IF c \in DOMAIN UpperMap THEN UpperMap[c] ELSE c

\* a bug that forgets the case folding
StrUpper_Identity(s) == s

\* str.upper()
StrUpper(s) == [i \in 1..Len(s) |-> UpperChar(s[i])]

\* needle in hay
StrContains(needle, hay) ==
    \E i \in 0..(Len(hay) - Len(needle)) :
        \A k \in 1..Len(needle) : hay[i + k] = needle[k]

\* str.startswith(prefix)
StartsWith(s, prefix) ==
    /\ Len(prefix) <= Len(s)
    /\ \A k \in 1..Len(prefix) : s[k] = prefix[k]

\* the string without its leading whitespace
LStrip(s) ==
    IF \A i \in 1..Len(s) : s[i] \in Whitespace
    THEN <<>>
    ELSE SubSeq(s, CHOOSE i \in 1..Len(s) :
                       s[i] \notin Whitespace /\ \A k \in 1..(i - 1) : s[k] \in Whitespace,
                Len(s))

\* the string without its trailing whitespace
RStrip(s) ==
    IF \A i \in 1..Len(s) : s[i] \in Whitespace
    THEN <<>>
    ELSE SubSeq(s, 1, CHOOSE i \in 1..Len(s) :
                          s[i] \notin Whitespace /\ \A k \in (i + 1)..Len(s) : s[k] \in Whitespace)

\* str.strip() (the one-element sets bind the intermediate strings)
Strip(s) == CHOOSE r \in {RStrip(l) : l \in {LStrip(t) : t \in {s}}} : TRUE

\* str.split(sep) for a one-character separator: the fields between the
\* separators, empty fields included
Split(s, sep) ==
    LET \* the fields, given the set P of the separators' positions; the
        \* k-th separator is at Pos(k), and 0 and Len(s) + 1 bracket the string
        Fields(P) ==
            LET n == Cardinality(P)
                Pos(k) == IF k = 0 THEN 0
                          ELSE IF k = n + 1 THEN Len(s) + 1
                          ELSE CHOOSE p \in P : Cardinality({q \in P : q < p}) = k - 1
            IN  [k \in 1..(n + 1) |-> SubSeq(s, Pos(k - 1) + 1, Pos(k) - 1)]
    IN  CHOOSE r \in {Fields(P) : P \in {{i \in 1..Len(s) : s[i] = sep}}} : TRUE

(* ------------------------- _is_heartbeat_empty ------------------------ *)

\* the test of line 32, on a line already stripped
SkippedLine(line) ==
    \/ line = <<>>
    \/ StartsWith(line, <<"#">>)
    \/ StartsWith(line, <<"<", "!", "-", "-">>)
    \/ line \in skip_patterns

\* (the quantifiers over one-element sets bind the value of split and of
\* strip, as the code's local variables do)
_is_heartbeat_empty(content) ==
    IF content.isNone \/ content.val = <<>>
    THEN TRUE
    ELSE \E lines \in {Split(content.val, "\n")} :
            \A i \in 1..Len(lines) :
                \E line \in {Strip(lines[i])} : SkippedLine(line)

(* ------------------------- inputs of the model ------------------------ *)

\* responses an on_heartbeat collaborator returns
RespOkExact == <<"H", "E", "A", "R", "T", "B", "E", "A", "T", "_", "O", "K">>

RespOkLower == <<"h", "e", "a", "r", "t", "b", "e", "a", "t", "_", "o", "k", ",", " ", "a", "l", "l", " ", "g", "o", "o", "d">>

RespOkInside == <<"o", "k", ":", " ", "H", "e", "a", "r", "t", "B", "e", "a", "t", "_", "O", "k", ".">>

RespReport == <<"F", "o", "u", "n", "d", " ", "3", " ", "s", "t", "a", "l", "e", " ", "P", "R", "s">>

Responses == {RespOkExact, RespOkLower, RespOkInside, RespReport}

\* texts of HEARTBEAT.md
ContentInert == <<"#", " ", "T", "a", "s", "k", "s", "\n", "\n", "<", "!", "-", "-", " ", "n", "o", "t", "e", " ", "-", "-", ">", "\n", "-", " ", "[", " ", "]", "\n">>

ContentItem == <<"-", " ", "[", " ", "]", " ", "b", "u", "y", " ", "m", "i", "l", "k">>

FileTexts == {ContentInert, ContentItem}

\* states of the file system at workspace / "HEARTBEAT.md": no such file, a
\* file whose read_text raises, a file with a text
FileStates ==
    {[exists |-> FALSE, readable |-> FALSE, text |-> <<>>],
     [exists |-> TRUE, readable |-> FALSE, text |-> <<>>]}
    \cup {[exists |-> TRUE, readable |-> TRUE, text |-> c] : c \in FileTexts}

(* ------------------------------- state -------------------------------- *)

VARIABLES
    enabled,        \* self.enabled
    on_heartbeat,   \* whether self.on_heartbeat is a collaborator (not None)
    on_notify,      \* whether self.on_notify is a collaborator (not None)
    _running,       \* self._running
    _task,          \* self._task: index into tasks, 0 for None
    tasks,          \* every asyncio task start() created, in creation order
    triggers,       \* the trigger_now() calls in flight
    file,           \* the state of HEARTBEAT.md
    nStarts,        \* start() calls made
    io              \* the tick or trigger_now call the last step completed

vars == <<enabled, on_heartbeat, on_notify, _running, _task, tasks, triggers,
          file, nStarts, io>>

config == <<enabled, on_heartbeat, on_notify>>

TaskIds == 1..Len(tasks)

TriggerIds == 1..Len(triggers)

\* What a tick or a trigger_now call does to the file and the collaborators
\* is a trace, a sequence of these events.  A task or call carries the trace
\* of its tick while the tick is in flight; the step that ends the tick
\* publishes the whole trace in io.
EvRead(content) == [ev |-> "read", content |-> content]

EvCall(f, arg) == [ev |-> "call", f |-> f, arg |-> arg]

EvReturn(f, val) == [ev |-> "return", f |-> f, val |-> val]

EvRaise(f) == [ev |-> "raise", f |-> f]

EvCancelled(f) == [ev |-> "cancelled", f |-> f]

NoIo == [src |-> "none", id |-> 0, trace |-> <<>>]
\* a call of stop() that has returned: id is the handle it found in
\* self._task, 0 for None
StopIo(handle) == [src |-> "stop", id |-> handle, trace |-> <<>>]

LoopIo(t, trace) == [src |-> "loop", id |-> t, trace |-> trace]

\* a trigger_now call ended: how ("returned" or "raised"), its trace and the
\* value it returned
TriggerIo(how, trace, result) ==
    [src |-> "trigger", id |-> 0, how |-> how, trace |-> trace, result |-> result]

\* a task asyncio.create_task(self._run_loop()) has just created: it has not
\* run yet
NewTask == [pc |-> "created", cancel |-> FALSE, trace |-> <<>>, asleepAtStop |-> FALSE]

Init ==
    /\ enabled \in BOOLEAN
    /\ on_heartbeat \in BOOLEAN
    /\ on_notify \in BOOLEAN
    /\ _running = FALSE
    /\ _task = 0
    /\ tasks = <<>>
    /\ triggers = <<>>
    /\ file \in FileStates
    /\ nStarts = 0
    /\ io = NoIo

(* ---------------------- the service's operations ---------------------- *)

\* a bug that takes a file whose read_text raises for an empty text
_read_heartbeat_file_ExistsOnly ==
    IF file.exists THEN Some(file.text) ELSE None

\* _read_heartbeat_file: the text, or None when the file does not exist or
\* read_text raises
_read_heartbeat_file ==
    IF file.exists
    THEN IF file.readable THEN Some(file.text) ELSE None
    ELSE None

\* a bug that drops the test of self.enabled
StartReturnsEarly_Never == FALSE

\* start(), line 80: the early return of a disabled service
StartReturnsEarly == ~enabled

\* start(): a coroutine without an await, so it runs as one step.  It tests
\* neither self._running nor self._task.  (asleepAtStop records, for a later
\* property, the tasks that were asleep when stop() was called and that no
\* start() has set running again; a cancelled task stays stopped.)
start ==
    /\ nStarts < MaxStarts
    /\ nStarts' = nStarts + 1
    /\ io' = NoIo
    /\ IF StartReturnsEarly
       THEN UNCHANGED <<_running, _task, tasks>>
       ELSE /\ _running' = TRUE
            /\ tasks' = Append([t \in TaskIds |->
                                  [tasks[t] EXCEPT !.asleepAtStop = @ /\ tasks[t].cancel]],
                               NewTask)
            /\ _task' = Len(tasks) + 1
    /\ UNCHANGED <<config, triggers, file>>

\* a bug that flips self._running instead of clearing it
RunningAfterStop_Flipped == ~_running

\* a bug that forgets to clear self._running
RunningAfterStop_Kept == _running

\* stop(), line 90: the value self._running is given
RunningAfterStop == FALSE

\* stop(), lines 91-92: the tasks Task.cancel() is called on.  cancel() on a
\* task that is done changes nothing.
CancelledByStop(t) == t = _task /\ tasks[t].pc # "done"

stop ==
    /\ _running' = RunningAfterStop
    /\ tasks' = [t \in TaskIds |->
                   [tasks[t] EXCEPT
                      !.cancel = @ \/ CancelledByStop(t),
                      !.asleepAtStop = @ \/ tasks[t].pc = "sleep"]]
    /\ _task' = 0
    /\ io' = StopIo(_task)
    /\ UNCHANGED <<config, triggers, file, nStarts>>

(* --------------------------- the loop task ---------------------------- *)

\* a bug that loops whatever self._running is
LoopHead_Forever == "sleep"

\* _run_loop, line 97: the test of the while loop, evaluated by a running
\* task: the task suspends in asyncio.sleep or returns
LoopHead == IF _running THEN "sleep" ELSE "done"

\* whether the CancelledError of a requested cancellation is raised in task
\* t when the event loop runs it
CancelRaised(t) == tasks[t].cancel

\* a bug that skips the tick only when there is no content at all
TickSkips_OnlyAbsent(content) == content.isNone

\* _tick, lines 112-114: the early return on the snapshot
TickSkips(content) == _is_heartbeat_empty(content)

\* _tick, line 121: the test of the response
HasOkToken(response) ==
    \E upper \in {StrUpper(response)} : StrContains(HEARTBEAT_OK_TOKEN, upper)

\* a bug that forwards the upper-cased copy of the response
NotifyArg_Upper(response) == StrUpper(response)

\* _tick, line 126: the argument on_notify is called with
NotifyArg(response) == response

\* a bug that calls the collaborator again at once, without sleeping
AfterTickException_Retry == "hb"

\* a bug that lets the Exception leave _tick and _run_loop
AfterTickException_Propagates == "done"

\* where a task goes when a collaborator raises an Exception in its tick:
\* _tick catches it (line 127) and returns to the loop
AfterTickException == LoopHead

\* the task's tick ends with trace tr and the task goes on at pc
EndTick(t, tr, pc) ==
    /\ tasks' = [tasks EXCEPT ![t].pc = pc, ![t].trace = <<>>, ![t].cancel = FALSE]
    /\ io' = LoopIo(t, tr)

\* the task's tick suspends with trace tr in the await of collaborator pc
SuspendTick(t, tr, pc) ==
    /\ tasks' = [tasks EXCEPT ![t].pc = pc, ![t].trace = tr]
    /\ io' = NoIo

\* _tick, lines 109-120, up to the tick's first await
\* a bug that takes either callback as a reason to invoke on_heartbeat
TickInvokes_EitherCallback == on_heartbeat \/ on_notify

\* _tick, line 118: whether the tick goes on to invoke on_heartbeat
TickInvokes == on_heartbeat

TickStarts(t) ==
    LET content == _read_heartbeat_file
    IN  IF TickSkips(content)
        THEN EndTick(t, <<EvRead(content)>>, LoopHead)
        ELSE IF TickInvokes
             THEN SuspendTick(t, <<EvRead(content), EvCall("on_heartbeat", HEARTBEAT_PROMPT)>>, "hb")
             ELSE EndTick(t, <<EvRead(content)>>, LoopHead)

\* the first run of a task: a task cancelled before it ever ran never enters
\* _run_loop; otherwise _run_loop runs to its first await
RunLoopStart(t) ==
    /\ tasks[t].pc = "created"
    /\ UNCHANGED <<config, _running, _task, triggers, file, nStarts>>
    /\ tasks' = [tasks EXCEPT ![t].pc = IF CancelRaised(t) THEN "done" ELSE LoopHead,
                              ![t].cancel = FALSE]
    /\ io' = NoIo

\* the task resumes from asyncio.sleep (line 99): with the CancelledError of a
\* requested cancellation (lines 102-103), or because the interval elapsed
\* (lines 100-101)
SleepResumes(t) ==
    /\ tasks[t].pc = "sleep"
    /\ UNCHANGED <<config, _running, _task, triggers, file, nStarts>>
    /\ IF CancelRaised(t)
       THEN /\ tasks' = [tasks EXCEPT ![t].pc = "done", ![t].cancel = FALSE]
            /\ io' = NoIo
       ELSE IF _running
            THEN TickStarts(t)
            ELSE /\ tasks' = [tasks EXCEPT ![t].pc = LoopHead]
                 /\ io' = NoIo

\* on_heartbeat returns response (lines 120-126)
HeartbeatReturns(t, response) ==
    /\ tasks[t].pc = "hb"
    /\ UNCHANGED <<config, _running, _task, triggers, file, nStarts>>
    /\ ~CancelRaised(t)
    /\ LET tr == Append(tasks[t].trace, EvReturn("on_heartbeat", response))
       IN  IF HasOkToken(response)
           THEN EndTick(t, tr, LoopHead)
           ELSE IF on_notify
                THEN SuspendTick(t, Append(tr, EvCall("on_notify", NotifyArg(response))),
                                 "notify")
                ELSE EndTick(t, tr, LoopHead)

\* on_heartbeat raises an Exception (lines 127-128)
HeartbeatRaises(t) ==
    /\ tasks[t].pc = "hb"
    /\ UNCHANGED <<config, _running, _task, triggers, file, nStarts>>
    /\ ~CancelRaised(t)
    /\ EndTick(t, Append(tasks[t].trace, EvRaise("on_heartbeat")), AfterTickException)

\* on_notify returns (line 126)
NotifyReturns(t) ==
    /\ tasks[t].pc = "notify"
    /\ UNCHANGED <<config, _running, _task, triggers, file, nStarts>>
    /\ ~CancelRaised(t)
    /\ EndTick(t, Append(tasks[t].trace, EvReturn("on_notify", <<>>)), LoopHead)

\* on_notify raises an Exception (lines 127-128)
NotifyRaises(t) ==
    /\ tasks[t].pc = "notify"
    /\ UNCHANGED <<config, _running, _task, triggers, file, nStarts>>
    /\ ~CancelRaised(t)
    /\ EndTick(t, Append(tasks[t].trace, EvRaise("on_notify")), AfterTickException)

\* the collaborator a task at pc awaits
Awaited(pc) == IF pc = "hb" THEN "on_heartbeat" ELSE "on_notify"

\* a cancellation requested while the task awaits a collaborator: the
\* CancelledError is raised inside the collaborator's coroutine, is no
\* Exception, so passes line 127 and line 104, and ends the loop at line 102
CallCancelled(t) ==
    /\ tasks[t].pc \in {"hb", "notify"}
    /\ UNCHANGED <<config, _running, _task, triggers, file, nStarts>>
    /\ CancelRaised(t)
    /\ EndTick(t, Append(tasks[t].trace, EvCancelled(Awaited(tasks[t].pc))), "done")

(* ---------------------------- trigger_now ----------------------------- *)

\* a bug that classifies the response as a tick does
TriggerResult_Classified(response) == IF HasOkToken(response) THEN <<>> ELSE response

\* trigger_now, line 133: the value returned for on_heartbeat's response
TriggerResult(response) == response

\* the calls in flight without call i
Without(i) == [j \in 1..(Len(triggers) - 1) |-> triggers[IF j < i THEN j ELSE j + 1]]

\* trigger_now up to its await (lines 132-134); without a collaborator it
\* returns None at once
trigger_now ==
    /\ Len(triggers) < MaxTriggers
    /\ IF on_heartbeat
       THEN /\ triggers' = Append(triggers,
                                  [pc |-> "hb",
                                   trace |-> <<EvCall("on_heartbeat", HEARTBEAT_PROMPT)>>])
            /\ io' = NoIo
       ELSE /\ triggers' = triggers
            /\ io' = TriggerIo("returned", <<>>, None)
    /\ UNCHANGED <<config, _running, _task, tasks, file, nStarts>>

\* on_heartbeat returns response to trigger_now, which returns it
TriggerReturns(i, response) ==
    /\ triggers[i].pc = "hb"
    /\ triggers' = Without(i)
    /\ io' = TriggerIo("returned",
                       Append(triggers[i].trace, EvReturn("on_heartbeat", response)),
                       Some(TriggerResult(response)))
    /\ UNCHANGED <<config, _running, _task, tasks, file, nStarts>>

\* a bug that stops the service when the collaborator fails
TriggerRaises_StopsService(i) ==
    /\ triggers[i].pc = "hb"
    /\ triggers' = Without(i)
    /\ io' = TriggerIo("raised", Append(triggers[i].trace, EvRaise("on_heartbeat")), None)
    /\ _running' = FALSE
    /\ UNCHANGED <<config, _task, tasks, file, nStarts>>

\* on_heartbeat raises in trigger_now, which has no handler: the call ends
\* with the exception
TriggerRaises(i) ==
    /\ triggers[i].pc = "hb"
    /\ triggers' = Without(i)
    /\ io' = TriggerIo("raised", Append(triggers[i].trace, EvRaise("on_heartbeat")), None)
    /\ UNCHANGED <<config, _running, _task, tasks, file, nStarts>>

(* -------------------------- the environment --------------------------- *)

\* the user or the agent rewrites, creates or removes HEARTBEAT.md
EditFile(f) ==
    /\ f # file
    /\ file' = f
    /\ io' = NoIo
    /\ UNCHANGED <<config, _running, _task, tasks, triggers, nStarts>>

Next ==
    \/ start
    \/ stop
    \/ trigger_now
    \/ \E t \in TaskIds : RunLoopStart(t)
    \/ \E t \in TaskIds : SleepResumes(t)
    \/ \E t \in TaskIds, response \in Responses : HeartbeatReturns(t, response)
    \/ \E t \in TaskIds : HeartbeatRaises(t)
    \/ \E t \in TaskIds : NotifyReturns(t)
    \/ \E t \in TaskIds : NotifyRaises(t)
    \/ \E t \in TaskIds : CallCancelled(t)
    \/ \E i \in TriggerIds, response \in Responses : TriggerReturns(i, response)
    \/ \E i \in TriggerIds : TriggerRaises(i)
    \/ \E f \in FileStates : EditFile(f)

Spec == Init /\ [][Next]_vars

(* ------------------- reading traces, for the claims ------------------- *)

IsCall(e, f) == e.ev = "call" /\ e.f = f

IsReturn(e, f) == e.ev = "return" /\ e.f = f

IsRaise(e, f) == e.ev = "raise" /\ e.f = f

NumCalls(tr, f) == Cardinality({k \in 1..Len(tr) : IsCall(tr[k], f)})

LastEv(tr) == tr[Len(tr)]

\* P holds of the trace of every tick in flight and of the tick just ended
AllTicks(P(_)) ==
    /\ \A t \in TaskIds : tasks[t].trace # <<>> => P(tasks[t].trace)
    /\ io.src = "loop" => P(io.trace)

\* two characters equal up to the case of a letter
SameLetter(a, b) ==
    \/ a = b
    \/ \E j \in 1..26 : {a, b} = {LowerLetters[j], UpperLetters[j]}

\* needle occurs in hay, in any letter case
ContainsAnyCase(needle, hay) ==
    \E i \in 0..(Len(hay) - Len(needle)) :
        \A k \in 1..Len(needle) : SameLetter(hay[i + k], needle[k])

\* the loops that can still perform ticks: not returned, and not cancelled
LiveLoops == {t \in TaskIds : tasks[t].pc # "done" /\ ~tasks[t].cancel}

\* the collaborator invocations in flight
InFlight == Cardinality({t \in TaskIds : tasks[t].pc \in {"hb", "notify"}}) + Len(triggers)

(* ------------------------------- claims ------------------------------- *)

\* C1: at most one scheduling loop that can perform ticks is live at any
\* time, whatever start() and stop() calls were made.
C1_AtMostOneLiveLoop == Cardinality(LiveLoops) <= 1

\* C2: a loop that was suspended in its interval sleep when stop() was called
\* performs no tick (no file read, no collaborator invocation) from then on:
\* until start() is called again, and never again if stop() cancelled it.
C2_NoTickAfterStopWhileAsleep ==
    \A t \in TaskIds :
        tasks[t].asleepAtStop =>
            /\ tasks[t].trace = <<>>
            /\ ~(io.src = "loop" /\ io.id = t)

C2_Witness ==
    \E t \in TaskIds : tasks[t].asleepAtStop /\ tasks[t].pc = "done" /\ ~_running

\* C3: no tick ends with its in-flight collaborator call aborted by the
\* cancellation stop() requested: the call runs to its own return or raise.
C3_CallsRunToCompletion ==
    ~(io.src = "loop" /\ LastEv(io.trace).ev = "cancelled")

\* C4: at most one collaborator invocation (of a tick or of trigger_now) is
\* in flight at any time.
C4_NoConcurrentInvocations == InFlight <= 1

C5_Holds(tr) ==
    _is_heartbeat_empty(tr[1].content) =>
        NumCalls(tr, "on_heartbeat") = 0 /\ NumCalls(tr, "on_notify") = 0

\* C5: a tick whose snapshot is absent or classified empty invokes neither
\* on_heartbeat nor on_notify.
C5_EmptyTickInvokesNothing == AllTicks(C5_Holds)

C5_Witness ==
    /\ on_heartbeat /\ on_notify
    /\ io.src = "loop"
    /\ ~io.trace[1].content.isNone
    /\ _is_heartbeat_empty(io.trace[1].content)

C6_Holds(tr) ==
    \A k \in 1..Len(tr) :
        IsReturn(tr[k], "on_heartbeat") /\ ContainsAnyCase(HEARTBEAT_OK_TOKEN, tr[k].val)
            => NumCalls(tr, "on_notify") = 0

\* C6: a tick whose on_heartbeat response contains HEARTBEAT_OK in any letter
\* case, anywhere, never invokes on_notify.
C6_OkResponseNotForwarded == AllTicks(C6_Holds)

C6_Witness ==
    /\ on_notify
    /\ io.src = "loop"
    /\ IsReturn(LastEv(io.trace), "on_heartbeat")
    /\ LastEv(io.trace).val = RespOkLower

C7_Holds(tr) ==
    \A k \in 1..Len(tr) :
        /\ IsReturn(tr[k], "on_heartbeat")
        /\ ~ContainsAnyCase(HEARTBEAT_OK_TOKEN, tr[k].val)
        /\ on_notify
        => /\ NumCalls(tr, "on_notify") = 1
           /\ k < Len(tr)
           /\ IsCall(tr[k + 1], "on_notify")
           /\ tr[k + 1].arg = tr[k].val

\* C7: a tick whose on_heartbeat response lacks the OK token, with on_notify
\* configured, invokes on_notify exactly once, right after on_heartbeat
\* returned, with the response unmodified.
C7_ReportForwardedOnce == AllTicks(C7_Holds)

C7_Witness ==
    /\ io.src = "loop"
    /\ IsReturn(LastEv(io.trace), "on_notify")
    /\ io.trace[3].val = RespReport

\* the tick just ended because a collaborator raised
TickFailed == io.src = "loop" /\ LastEv(io.trace).ev = "raise"

C8_AfterFailure ==
    TickFailed =>
        /\ _running => tasks[io.id].pc = "sleep" /\ ~tasks[io.id].cancel
        /\ IsRaise(LastEv(io.trace), "on_heartbeat") => NumCalls(io.trace, "on_notify") = 0

C8_LoopEndsOnlyByStop ==
    /\ \A t \in TaskIds :
          tasks[t].pc # "done" /\ tasks'[t].pc = "done" => tasks[t].cancel \/ ~_running
    /\ (_running /\ ~_running') \/ (\E t \in TaskIds : ~tasks[t].cancel /\ tasks'[t].cancel)
          => stop

C9_DisabledNeverStarts ==
    ~enabled => ~_running /\ _task = 0 /\ tasks = <<>> /\ io.src # "loop"

C9_Witness == ~enabled /\ nStarts >= 2

\* C10: trigger_now with on_heartbeat configured invokes it exactly once with
\* the fixed prompt, reads no file, invokes no on_notify, and returns the
\* response unchanged; without on_heartbeat it invokes nothing and returns
\* None.
C10_TriggerPassesThrough ==
    /\ \A i \in TriggerIds :
          on_heartbeat /\ triggers[i].trace = <<EvCall("on_heartbeat", HEARTBEAT_PROMPT)>>
    /\ io.src = "trigger" =>
          IF on_heartbeat
          THEN /\ Len(io.trace) = 2
               /\ IsCall(io.trace[1], "on_heartbeat")
               /\ io.trace[1].arg = HEARTBEAT_PROMPT
               /\ io.how = "returned" =>
                     /\ IsReturn(io.trace[2], "on_heartbeat")
                     /\ io.result = Some(io.trace[2].val)
               /\ io.how = "raised" => IsRaise(io.trace[2], "on_heartbeat")
          ELSE io.trace = <<>> /\ io.how = "returned" /\ io.result = None

C10_Witness ==
    /\ io.src = "trigger"
    /\ io.how = "returned"
    /\ _is_heartbeat_empty(_read_heartbeat_file)
    /\ io.result = Some(RespOkInside)

(* --------------- the classifier on arbitrary file texts --------------- *)

\* length of the texts typed into HEARTBEAT.md
MaxTextLen == 5

\* the characters the texts are typed from
Alphabet == {"#", "-", "[", "]", " ", "a", "\n", "\r"}

ClassifierInit ==
    /\ enabled = TRUE
    /\ on_heartbeat = FALSE
    /\ on_notify = FALSE
    /\ _running = FALSE
    /\ _task = 0
    /\ tasks = <<>>
    /\ triggers = <<>>
    /\ file = [exists |-> TRUE, readable |-> TRUE, text |-> <<>>]
    /\ nStarts = 0
    /\ io = NoIo

\* the user appends a character to HEARTBEAT.md
TypeChar(c) ==
    /\ Len(file.text) < MaxTextLen
    /\ file' = [file EXCEPT !.text = Append(@, c)]
    /\ io' = NoIo
    /\ UNCHANGED <<config, _running, _task, tasks, triggers, nStarts>>

\* _tick, lines 109-112: the snapshot is read and classified
Classify ==
    /\ io' = [src |-> "classify", id |-> 0,
              trace |-> <<EvRead(_read_heartbeat_file)>>,
              empty |-> _is_heartbeat_empty(_read_heartbeat_file)]
    /\ UNCHANGED <<config, _running, _task, tasks, triggers, file, nStarts>>

ClassifierNext ==
    \/ \E c \in Alphabet : TypeChar(c)
    \/ Classify

ClassifierSpec == ClassifierInit /\ [][ClassifierNext]_vars

\* the logical lines of a text: the pieces between line endings, where LF,
\* CR and CRLF end a line (the empty piece inside a CRLF is a blank line)
RECURSIVE LogicalLines(_)
LogicalLines(s) ==
    IF \E i \in 1..Len(s) : s[i] \in {"\n", "\r"}
    THEN LET i == CHOOSE j \in 1..Len(s) :
                      s[j] \in {"\n", "\r"} /\ \A k \in 1..(j - 1) : s[k] \notin {"\n", "\r"}
         IN  <<SubSeq(s, 1, i - 1)>> \o LogicalLines(SubSeq(s, i + 1, Len(s)))
    ELSE <<s>>

\* a line with nothing to act on
InertLine(line) ==
    LET t == Strip(line)
    IN  \/ t = <<>>
        \/ t[1] = "#"
        \/ Len(t) >= 4 /\ SubSeq(t, 1, 4) = <<"<", "!", "-", "-">>
        \/ t \in {<<"-", " ", "[", " ", "]">>, <<"*", " ", "[", " ", "]">>,
                  <<"-", " ", "[", "x", "]">>, <<"*", " ", "[", "x", "]">>}

AllLinesInert(s) == \A i \in 1..Len(LogicalLines(s)) : InertLine(LogicalLines(s)[i])

\* C11: _is_heartbeat_empty is true exactly of the contents whose logical
\* lines (ended by LF, CRLF or CR) are all inert.
C11_EmptyIffAllLogicalLinesInert ==
    io.src = "classify" => (io.empty <=> AllLinesInert(io.trace[1].content.val))

\* a start() that follows a stop(): stop() left self._task None
RestartStep == start /\ enabled /\ _task = 0 /\ tasks # <<>>

\* C12: when start() is called after a stop(), every loop an earlier start()
\* spawned has already terminated.
C12_RestartFindsLoopsTornDown ==
    [][RestartStep => \A t \in TaskIds : tasks[t].pc = "done"]_vars

(* ------------------------- the fair event loop ------------------------ *)

\* a run of task t by the event loop, from its await to its next await
TaskStep(t) ==
    /\ t \in TaskIds
    /\ \/ RunLoopStart(t)
       \/ SleepResumes(t)
       \/ \E response \in Responses : HeartbeatReturns(t, response)
       \/ HeartbeatRaises(t)
       \/ NotifyReturns(t)
       \/ NotifyRaises(t)
       \/ CallCancelled(t)

\* The event loop runs every task that can run: a task that is ready is run,
\* a sleep's interval elapses, a cancelled task is resumed with its
\* CancelledError, and a collaborator's call ends (returns or raises).
FairSpec == Spec /\ \A t \in 1..MaxStarts : WF_vars(TaskStep(t))

AllLoopsDone == \A t \in TaskIds : tasks[t].pc = "done"

\* C13: once stop() has been called, and unless start() is called again,
\* every loop task ever spawned eventually terminates.
C13_StoppedLoopsTerminate == (_task = 0) ~> (AllLoopsDone \/ _task # 0)

C13_Witness ==
    /\ Len(tasks) >= 2
    /\ _task = 0
    /\ AllLoopsDone
    /\ io.src = "loop"
    /\ LastEv(io.trace).ev = "cancelled"

\* task t begins a tick in this step: it had no tick in flight, and after
\* the step it has one or has just ended one
TickBegins(t) ==
    /\ tasks[t].trace = <<>>
    /\ tasks'[t].trace # <<>> \/ (io'.src = "loop" /\ io'.id = t)

\* task t ends a tick in this step
TickEnds(t) == io'.src = "loop" /\ io'.id = t

C14_Step ==
    \A t \in TaskIds :
        /\ TickBegins(t) => tasks[t].pc = "sleep" /\ ~tasks[t].cancel
        /\ TickEnds(t) => tasks'[t].pc \in {"sleep", "done"}

\* C14: a loop begins a tick only in the step that resumes it from a
\* completed (not cancelled) interval sleep, never at start(), and after a
\* tick ends, with or without a failure, the loop is in its sleep again (or
\* has returned) before any next tick.
C14_TickOnlyAfterSleep == [][C14_Step]_vars

C14_Witness ==
    /\ io.src = "loop"
    /\ Len(io.trace) = 1
    /\ _running
    /\ tasks[io.id].pc = "sleep"

C15_Holds(tr) ==
    NumCalls(tr, "on_heartbeat") = 0 /\ NumCalls(tr, "on_notify") = 0

\* C15: without an on_heartbeat collaborator no tick invokes a collaborator,
\* whatever the file holds and whether or not on_notify is configured, and a
\* loop that has ended such a tick while the service runs is asleep again.
C15_NoCallbackNoInvocation ==
    ~on_heartbeat =>
        /\ AllTicks(C15_Holds)
        /\ io.src = "loop" /\ _running => tasks[io.id].pc = "sleep"

C15_Witness ==
    /\ ~on_heartbeat /\ on_notify
    /\ io.src = "loop"
    /\ ~_is_heartbeat_empty(io.trace[1].content)
    /\ _running
    /\ tasks[io.id].pc = "sleep"

ReadFails == ~file.exists \/ ~file.readable

C16_Step ==
    \A t \in TaskIds :
        TickBegins(t) /\ ReadFails =>
            /\ io'.src = "loop" /\ io'.id = t
            /\ io'.trace = <<EvRead(None)>>
            /\ tasks'[t].pc = IF _running THEN "sleep" ELSE "done"

\* C16: a tick that finds the file missing or unreadable has the absent
\* content as its snapshot, invokes no collaborator and ends at once, and its
\* loop goes on: it is asleep again, or has returned if stop() had cleared
\* _running.
C16_ReadFailureIsAbsentContent == [][C16_Step]_vars

C16_Witness ==
    /\ on_heartbeat /\ on_notify
    /\ file.exists /\ ~file.readable
    /\ io.src = "loop"
    /\ io.trace = <<EvRead(None)>>
    /\ tasks[io.id].pc = "sleep"

NotRunning == ~_running /\ _task = 0

C17_Step ==
    stop =>
        /\ NotRunning'
        /\ NotRunning =>
              /\ UNCHANGED <<config, _running, _task, triggers, file, nStarts>>
              /\ \A t \in TaskIds :
                    /\ tasks'[t].pc = tasks[t].pc
                    /\ tasks'[t].cancel = tasks[t].cancel
                    /\ tasks'[t].trace = tasks[t].trace

\* C17: stop() always leaves the service not running with no handle, and on a
\* service that is not running (never started, disabled, or stopped) it
\* changes nothing: no flag, no handle, and no task is cancelled.  So a second
\* stop() after a stop() changes nothing.
C17_StopWhenNotRunningIsNoOp == [][C17_Step]_vars

C17_Witness ==
    /\ io.src = "stop" /\ io.id = 0
    /\ NotRunning
    /\ \E t \in TaskIds : tasks[t].pc # "done" /\ ~tasks[t].cancel

\* C18: no public operation ends by raising a collaborator's failure to its
\* caller.  start() and stop() invoke no collaborator; a call of trigger_now
\* ends by returning.
C18_NoFailureSurfaced == ~(io.src = "trigger" /\ io.how = "raised")

TriggerStep ==
    \/ trigger_now
    \/ \E i \in TriggerIds :
          \/ \E response \in Responses : TriggerReturns(i, response)
          \/ TriggerRaises(i)

\* C20: no step of trigger_now, in any state of the service and whether
\* on_heartbeat returns or raises, changes _running or _task, or creates,
\* cancels, wakes or otherwise moves a loop task.
C20_TriggerLeavesLifecycle ==
    [][TriggerStep => UNCHANGED <<_running, _task, tasks>>]_vars

C20_Witness ==
    /\ io.src = "trigger" /\ io.how = "raised"
    /\ _running /\ _task # 0
    /\ tasks[_task].pc = "hb"

====
